---- MODULE Spec2Model ----
(***************************************************************************)
(* A model of zort (src/zort.c): matching of benchmarks and zummaries,     *)
(* packing of zummaries into buckets (keep order, or the fast-lane phase   *)
(* followed by the memory-balancing phase), and the scheduling of buckets  *)
(* on nodes.                                                               *)
(*                                                                         *)
(* Indices are 0-based as in the C code; a TLA+ sequence s holds the C     *)
(* array element a[k] at s[k + 1].  A pointer into an array is the index   *)
(* of the element, the null pointer is Null.  Doubles are modelled by      *)
(* natural numbers.  Assertions are compiled in (the source defines no     *)
(* NDEBUG): a failing assertion ends the run in pc = "assert_failed".  A   *)
(* call of die ends it in a pc that names the message, "die_...".          *)
(***************************************************************************)
EXTENDS Integers, Sequences, FiniteSets, TLC

VARIABLES
  pc,                   \* position of main
  args,                 \* the command line options as given
  benchmarks,           \* benchmarks[0..size_benchmarks-1]
  zummaries,            \* zummaries[0..size_zummaries-1]
  stray,                \* what a read below zummaries[0] found, if any
  keep, bucket_size, fast_bucket_fraction, fast_bucket_memory, size_nodes,
  tasks, last_bucket_size,
  buckets,              \* buckets[0..tasks-1]
  scheduled, max_memory_limit_hit,
  i, j, limit, last,    \* loop variables of main
  nodes,                \* nodes[0..size_nodes-1], each Null or a bucket index
  latency

vars == <<pc, args, benchmarks, zummaries, stray, keep, bucket_size,
          fast_bucket_fraction, fast_bucket_memory, size_nodes, tasks,
          last_bucket_size, buckets, scheduled, max_memory_limit_hit,
          i, j, limit, last, nodes, latency>>

(***************************************************************************)
(* Program constants.                                                      *)
(***************************************************************************)
BUCKET_SIZE == 64
FAST_BUCKET_FRACTION == 50
FAST_BUCKET_MEMORY == 8000
AVAILABLE_NODES == 32

Null == -1

(***************************************************************************)
(* Bounds of the model.                                                    *)
(***************************************************************************)
\* At most MaxRecords lines in the benchmarks file and in the zummary file.
MaxRecords == 3
\* Wall-clock times (zummary.real) are drawn from 0..MaxReal.
MaxReal == 2
\* At most MaxUnderrun elements below zummaries[0] are readable before the
\* scan of the second phase leaves mapped memory.
MaxUnderrun == 1
\* The -n option is given with 1..MaxNodes, or not at all.
MaxNodes == 3

Names == 1..MaxRecords
\* limit.memory of every run (the memory limit the runs were made with).
LimitMemories == {2}

size_benchmarks == Len(benchmarks)
size_zummaries == Len(zummaries)

(***************************************************************************)
(* Inputs: the parsed files and the command line.                          *)
(***************************************************************************)
\* What parse_zummary fills in; benchmark, scheduled and memory_limit_hit
\* are written later, before they are read.
Zummary(name, status, real, memory, limit_memory) ==
  [name |-> name, status |-> status, real |-> real, memory |-> memory,
   limit_memory |-> limit_memory, benchmark |-> Null, scheduled |-> FALSE,
   memory_limit_hit |-> FALSE]

Benchmark(name) == [name |-> name, zummary |-> Null]

\* All sequences of length n over S.
SeqsOf(S, n) == [1..n -> S]

\* The permutations of 1..n, as sequences.
Perms(n) == {p \in SeqsOf(1..n, n) : \A a, b \in 1..n : a # b => p[a] # p[b]}

\* An option is the set of the values given for it: empty when absent.
Option(values) == {{}} \cup {{v} : v \in values}

InitWith(bnames, znames, zvalues, a) ==
  /\ pc = "options"
  /\ args = a
  /\ benchmarks = [k \in 1..Len(bnames) |-> Benchmark(bnames[k])]
  /\ zummaries = [k \in 1..Len(znames) |->
                    Zummary(znames[k], zvalues[k].status, zvalues[k].real,
                            zvalues[k].memory, zvalues[k].limit_memory)]
  /\ stray = <<>>
  /\ keep = FALSE
  /\ bucket_size = 0
  /\ fast_bucket_fraction = 0
  /\ fast_bucket_memory = 0
  /\ size_nodes = 0
  /\ tasks = 0
  /\ last_bucket_size = 0
  /\ buckets = <<>>
  /\ scheduled = 0
  /\ max_memory_limit_hit = 0
  /\ i = 0
  /\ j = 0
  /\ limit = 0
  /\ last = 0
  /\ nodes = <<>>
  /\ latency = 0

NoOption == {{}}

\* The names 1..n in the order of the zummary file, and in reverse.
InOrder(n) == [k \in 1..n |-> k]
Reversed(n) == [k \in 1..n |-> n + 1 - k]

\* Inputs of the packing: matched files (the benchmarks in the reverse
\* order of the zummaries), runs of every status, two wall-clock times, a
\* memory at and one above the limit of the fast buckets.
PackValues ==
  [status : {10, 20, 2}, real : {0, 1}, memory : {1, 2},
   limit_memory : LimitMemories]

PackArgs ==
  [keep : {FALSE}, b : {{1}, {2}}, f : {{}, {100}}, l : {{1}}, n : {{2}}]

InitPack ==
  \E n \in 1..MaxRecords :
    \E zvalues \in SeqsOf(PackValues, n), a \in PackArgs :
      InitWith(Reversed(n), InOrder(n), zvalues, a)

\* Inputs of the packing in the order of the benchmarks: matched files,
\* the benchmarks in any order.
KeepValues ==
  [status : {10}, real : {0, 1}, memory : {1, 2}, limit_memory : LimitMemories]
    \cup [status : {20}, real : {1}, memory : {2}, limit_memory : LimitMemories]

KeepArgs == [keep : {TRUE}, b : {{1}, {2}}, f : NoOption, l : NoOption, n : {{2}}]

InitKeep ==
  \E n \in 1..MaxRecords :
    \E bnames \in Perms(n), zvalues \in SeqsOf(KeepValues, n), a \in KeepArgs :
      InitWith(bnames, InOrder(n), zvalues, a)

\* Inputs of the node scheduling: matched files, wall-clock times in
\* 0..MaxReal, any number of nodes up to MaxNodes and the default one.
NodeValues ==
  [status : {10}, real : 0..MaxReal, memory : {1}, limit_memory : LimitMemories]

NodeArgs ==
  [keep : BOOLEAN, b : Option({1, 2}), f : NoOption, l : NoOption,
   n : Option(1..MaxNodes)]

InitNodes ==
  \E n \in 1..MaxRecords :
    \E zvalues \in SeqsOf(NodeValues, n), a \in NodeArgs :
      InitWith(InOrder(n), InOrder(n), zvalues, a)

\* Inputs of the matching: any names in the two files, a name more than
\* once or in one file only included; the zummary file may hold no run.
MatchValues ==
  [status : {10}, real : {1}, memory : {1}, limit_memory : LimitMemories]

MatchArgs == [keep : BOOLEAN, b : {{2}}, f : NoOption, l : NoOption, n : {{2}}]

InitMatch ==
  \E n \in 1..MaxRecords, m \in 0..MaxRecords :
    \E bnames \in SeqsOf(Names, n), znames \in SeqsOf(Names, m),
       zvalues \in SeqsOf(MatchValues, m), a \in MatchArgs :
      InitWith(bnames, znames, zvalues, a)

\* Inputs of the option parsing: matched files, each of -b, -f and -n
\* absent, negative, zero and positive, -f also above 100 percent.
OptionValues ==
  [status : {10, 2}, real : {1}, memory : {1}, limit_memory : LimitMemories]

OptionArgs ==
  [keep : BOOLEAN, b : Option({-1, 0, 1}), f : Option({-1, 0, 100, 101}),
   l : {{1}}, n : Option({-1, 0, 1})]

InitOptions ==
  \E n \in 1..MaxRecords :
    \E zvalues \in SeqsOf(OptionValues, n), a \in OptionArgs :
      InitWith(InOrder(n), InOrder(n), zvalues, a)

\* Inputs of the first phase: matched files, runs that are out of the first
\* phase by their status or by their memory, equal wall-clock times with
\* different memory, a limit of one and of two of three buckets; and one
\* choice of options with -k.
FastValues ==
  [status : {10, 2}, real : {0, 1}, memory : {1, 2, 3},
   limit_memory : LimitMemories]

FastArgs ==
  [keep : {FALSE}, b : {{1}, {2}}, f : {{}, {67}}, l : {{2}}, n : {{2}}]
    \cup [keep : {TRUE}, b : {{2}}, f : NoOption, l : {{2}}, n : {{2}}]

InitFast ==
  \E n \in 1..MaxRecords :
    \E zvalues \in SeqsOf(FastValues, n), a \in FastArgs :
      InitWith(InOrder(n), InOrder(n), zvalues, a)

ZummaryValues ==
  PackValues \cup KeepValues \cup NodeValues \cup MatchValues
    \cup OptionValues \cup FastValues

\* The initial states of the three specifications.
Init == InitPack \/ InitKeep

(***************************************************************************)
(* Option parsing (main, lines 496-529).                                   *)
(***************************************************************************)
Given(o) == CHOOSE v \in o : TRUE

\* The value a static variable has after the options were parsed: the
\* argument when the option is given, and the zero it started with.
OptionValue(o) == IF o = {} THEN 0 ELSE Given(o)

InvalidArguments ==
  \/ args.b # {} /\ Given(args.b) <= 0
  \/ args.f # {} /\ Given(args.f) < 0
  \/ args.l # {} /\ Given(args.l) < 0
  \/ args.n # {} /\ Given(args.n) < 0

ParseOptions ==
  /\ pc = "options"
  /\ IF InvalidArguments
       THEN /\ pc' = "die_invalid_argument"
            /\ UNCHANGED <<keep, bucket_size, fast_bucket_fraction,
                           fast_bucket_memory, size_nodes>>
       ELSE /\ keep' = args.keep
            /\ bucket_size' = OptionValue(args.b)
            /\ fast_bucket_fraction' = OptionValue(args.f)
            /\ fast_bucket_memory' = OptionValue(args.l)
            /\ size_nodes' = OptionValue(args.n)
            \* main dies when the benchmarks file holds no benchmark
            /\ pc' = IF size_benchmarks = 0 THEN "die_no_benchmark"
                                           ELSE "match_zummaries"
  /\ UNCHANGED <<args, benchmarks, zummaries, stray, tasks, last_bucket_size,
                 buckets, scheduled, max_memory_limit_hit, i, j, limit, last,
                 nodes, latency>>

(***************************************************************************)
(* Matching (main, lines 637-657).                                         *)
(***************************************************************************)
\* A search that takes the first element, whatever its name.
FirstNamed_AnyName(seq, name) == IF Len(seq) > 0 THEN 0 ELSE Null

\* The index of the first element of seq with the name, or Null.
FirstNamed(seq, name) ==
  IF \E k \in 1..Len(seq) : seq[k].name = name
    THEN (CHOOSE k \in 1..Len(seq) :
            /\ seq[k].name = name
            /\ \A m \in 1..(k - 1) : seq[m].name # name) - 1
    ELSE Null

find_zummary(name) == FirstNamed(zummaries, name)

find_benchmark(name) == FirstNamed(benchmarks, name)

MatchZummary ==
  /\ pc = "match_zummaries"
  /\ i # size_zummaries
  /\ LET benchmark == find_benchmark(zummaries[i + 1].name) IN
       IF benchmark = Null
         THEN /\ pc' = "die_zummary_not_in_benchmarks"
              /\ UNCHANGED <<zummaries, i>>
         ELSE /\ zummaries' = [zummaries EXCEPT ![i + 1].benchmark = benchmark,
                                                ![i + 1].scheduled = FALSE]
              /\ i' = i + 1
              /\ pc' = pc
  /\ UNCHANGED <<args, benchmarks, stray, keep, bucket_size,
                 fast_bucket_fraction, fast_bucket_memory, size_nodes, tasks,
                 last_bucket_size, buckets, scheduled, max_memory_limit_hit,
                 j, limit, last, nodes, latency>>

MatchZummariesDone ==
  /\ pc = "match_zummaries"
  /\ i = size_zummaries
  /\ pc' = "match_benchmarks"
  /\ i' = 0
  /\ UNCHANGED <<args, benchmarks, zummaries, stray, keep, bucket_size,
                 fast_bucket_fraction, fast_bucket_memory, size_nodes, tasks,
                 last_bucket_size, buckets, scheduled, max_memory_limit_hit,
                 j, limit, last, nodes, latency>>

MatchBenchmark ==
  /\ pc = "match_benchmarks"
  /\ i # size_benchmarks
  /\ LET zummary == find_zummary(benchmarks[i + 1].name) IN
       IF zummary = Null
         THEN /\ pc' = "die_benchmark_not_in_zummary"
              /\ UNCHANGED <<benchmarks, i>>
         ELSE /\ benchmarks' = [benchmarks EXCEPT ![i + 1].zummary = zummary]
              /\ i' = i + 1
              /\ pc' = pc
  /\ UNCHANGED <<args, zummaries, stray, keep, bucket_size,
                 fast_bucket_fraction, fast_bucket_memory, size_nodes, tasks,
                 last_bucket_size, buckets, scheduled, max_memory_limit_hit,
                 j, limit, last, nodes, latency>>

\* The end of the second loop and the comparison of the two sizes.
MatchBenchmarksDone ==
  /\ pc = "match_benchmarks"
  /\ i = size_benchmarks
  /\ pc' = IF size_benchmarks = size_zummaries THEN "matched"
                                                ELSE "die_sizes_differ"
  /\ i' = 0
  /\ UNCHANGED <<args, benchmarks, zummaries, stray, keep, bucket_size,
                 fast_bucket_fraction, fast_bucket_memory, size_nodes, tasks,
                 last_bucket_size, buckets, scheduled, max_memory_limit_hit,
                 j, limit, last, nodes, latency>>

(***************************************************************************)
(* Defaults, the number of buckets and their allocation (main, lines       *)
(* 658-721), and the start of the packing loop of the chosen mode.         *)
(***************************************************************************)
\* tasks and last_bucket_size for n benchmarks in buckets of size bs.
TasksFor(n, bs) == IF (n \div bs) * bs = n THEN n \div bs ELSE (n \div bs) + 1

LastBucketSizeFor(n, bs) == IF (n \div bs) * bs = n THEN bs ELSE n % bs

\* A bucket as calloc leaves it; zummaries holds the first size elements
\* of the array of bucket_size pointers.
EmptyBucket ==
  [real |-> 0, memory |-> 0, size |-> 0, memory_limit_hit |-> 0,
   start |-> 0, end |-> 0, zummaries |-> <<>>]

Swap(seq, a, b) == [seq EXCEPT ![a + 1] = seq[b + 1], ![b + 1] = seq[a + 1]]

\* The comparisons of sort_zummaries_by_time that leave zi before zj.
TimeOrdered_RealOnly(zi, zj) == zi.real <= zj.real

\* The comparisons of sort_zummaries_by_time that leave zi before zj.
TimeOrdered(zi, zj) ==
  \/ zi.real < zj.real
  \/ zi.real = zj.real /\ zi.memory <= zj.memory

\* A comparison that is the one by time again.
MemoryOrdered_TimeFirst(zi, zj) ==
  \/ zi.real < zj.real
  \/ zi.real = zj.real /\ zi.memory <= zj.memory

\* The comparisons of sort_zummaries_by_memory that leave zi before zj.
MemoryOrdered(zi, zj) ==
  \/ zi.memory < zj.memory
  \/ zi.memory = zj.memory /\ zi.real <= zj.real

RECURSIVE SortTimeInner(_, _, _)
SortTimeInner(zs, a, b) ==
  IF b = Len(zs) THEN zs
  ELSE IF zs[b + 1].scheduled \/ TimeOrdered(zs[a + 1], zs[b + 1])
    THEN SortTimeInner(zs, a, b + 1)
    ELSE SortTimeInner(Swap(zs, a, b), a, b + 1)

RECURSIVE SortTimeOuter(_, _)
SortTimeOuter(zs, a) ==
  IF a = Len(zs) - 1 THEN zs
  ELSE IF zs[a + 1].scheduled
    THEN SortTimeOuter(zs, a + 1)
    ELSE SortTimeOuter(SortTimeInner(zs, a, a + 1), a + 1)

sort_zummaries_by_time(zs) == SortTimeOuter(zs, 0)

RECURSIVE SortMemoryInner(_, _, _)
SortMemoryInner(zs, a, b) ==
  IF b = Len(zs) THEN zs
  ELSE IF zs[b + 1].scheduled \/ MemoryOrdered(zs[a + 1], zs[b + 1])
    THEN SortMemoryInner(zs, a, b + 1)
    ELSE SortMemoryInner(Swap(zs, a, b), a, b + 1)

RECURSIVE SortMemoryOuter(_, _)
SortMemoryOuter(zs, a) ==
  IF a = Len(zs) - 1 THEN zs
  ELSE IF zs[a + 1].scheduled
    THEN SortMemoryOuter(zs, a + 1)
    ELSE SortMemoryOuter(SortMemoryInner(zs, a, a + 1), a + 1)

sort_zummaries_by_memory(zs) == SortMemoryOuter(zs, 0)

\* limit of the first phase: (fast_bucket_fraction * tasks) / 100u.
FastLimit(fraction, t) == (fraction * t) \div 100

Configure ==
  /\ pc = "matched"
  /\ bucket_size' = IF bucket_size # 0 THEN bucket_size ELSE BUCKET_SIZE
  /\ fast_bucket_fraction' =
       IF fast_bucket_fraction # 0 THEN fast_bucket_fraction
                                   ELSE FAST_BUCKET_FRACTION
  /\ fast_bucket_memory' =
       IF fast_bucket_memory # 0 THEN fast_bucket_memory ELSE FAST_BUCKET_MEMORY
  /\ size_nodes' = IF size_nodes # 0 THEN size_nodes ELSE AVAILABLE_NODES
  /\ tasks' = TasksFor(size_benchmarks, bucket_size')
  /\ last_bucket_size' = LastBucketSizeFor(size_benchmarks, bucket_size')
  /\ buckets' = [k \in 1..tasks' |-> EmptyBucket]
  /\ i' = 0
  /\ j' = 0
  /\ IF keep
       THEN /\ pc' = "keep"
            /\ UNCHANGED <<zummaries, limit>>
       ELSE /\ pc' = "phase_a"
            /\ zummaries' = sort_zummaries_by_time(zummaries)
            /\ limit' = FastLimit(fast_bucket_fraction', tasks')
  /\ UNCHANGED <<args, benchmarks, stray, keep, scheduled,
                 max_memory_limit_hit, last, nodes, latency>>

(***************************************************************************)
(* schedule_zummary and next_bucket.                                       *)
(***************************************************************************)
\* The zummary a pointer zummaries + k points to: an element of the array,
\* or for k < 0 what is below it (st).
ZummaryAt(st, k) == IF k >= 0 THEN zummaries[k + 1] ELSE st[-k]

MemoryLimitHit(z) == z.status = 2 \/ z.memory >= z.limit_memory

\* A schedule_zummary that puts the zummary in front of those of the bucket.
BucketAfter_InFront(bucket, k, z) ==
  [bucket EXCEPT !.zummaries = <<k>> \o @,
                 !.size = @ + 1,
                 !.real = IF @ < z.real THEN z.real ELSE @,
                 !.memory = @ + z.memory,
                 !.memory_limit_hit = IF MemoryLimitHit(z) THEN @ + 1 ELSE @]

\* A schedule_zummary that takes the time of the last zummary as the
\* bucket's.
BucketAfter_LastReal(bucket, k, z) ==
  [bucket EXCEPT !.zummaries = Append(@, k),
                 !.size = @ + 1,
                 !.real = z.real,
                 !.memory = @ + z.memory,
                 !.memory_limit_hit = IF MemoryLimitHit(z) THEN @ + 1 ELSE @]

\* The bucket after schedule_zummary put zummary z, at zummaries + k, in it.
BucketAfter(bucket, k, z) ==
  [bucket EXCEPT !.zummaries = Append(@, k),
                 !.size = @ + 1,
                 !.real = IF @ < z.real THEN z.real ELSE @,
                 !.memory = @ + z.memory,
                 !.memory_limit_hit = IF MemoryLimitHit(z) THEN @ + 1 ELSE @]

\* A schedule_zummary that leaves zummary->scheduled as it was.
ZummaryAfter_NotMarked(z) == [z EXCEPT !.memory_limit_hit = MemoryLimitHit(z)]

\* The zummary after schedule_zummary.
ZummaryAfter(z) ==
  [z EXCEPT !.memory_limit_hit = MemoryLimitHit(z), !.scheduled = TRUE]

\* The two assertions of schedule_zummary.
ScheduleAsserts(b, z) == ~z.scheduled /\ buckets[b + 1].size < bucket_size

\* schedule_zummary(buckets + b, zummaries + k), its assertions holding;
\* st is what lies below zummaries[0].
schedule_zummary(b, k, st) ==
  LET z == ZummaryAt(st, k)
      after == BucketAfter(buckets[b + 1], k, z)
  IN /\ buckets' = [buckets EXCEPT ![b + 1] = after]
     /\ IF k >= 0
          THEN /\ zummaries' = [zummaries EXCEPT ![k + 1] = ZummaryAfter(z)]
               /\ stray' = st
          ELSE /\ stray' = [st EXCEPT ![-k] = ZummaryAfter(z)]
               /\ zummaries' = zummaries
     /\ max_memory_limit_hit' =
          IF MemoryLimitHit(z) /\ max_memory_limit_hit < after.memory_limit_hit
            THEN after.memory_limit_hit
            ELSE max_memory_limit_hit
     /\ scheduled' = scheduled + 1

\* A next_bucket that takes every bucket to hold bucket_size zummaries.
MaxSize_AlwaysFull(res) == bucket_size

\* max_size of next_bucket for the bucket at index res.
MaxSize(res) == IF res + 1 = tasks THEN last_bucket_size ELSE bucket_size

\* The candidate next_bucket looks at in its n-th round, n = 1, 2, ...
Candidate(b, n) == (b + n) % tasks

\* next_bucket(b) on the buckets bs: the first bucket after b, cyclically,
\* that is below its max_size; Null when there is none and the loop of
\* next_bucket never returns.
next_bucket(bs, b) ==
  IF \E n \in 1..tasks : bs[Candidate(b, n) + 1].size < MaxSize(Candidate(b, n))
    THEN Candidate(b, CHOOSE n \in 1..tasks :
           /\ bs[Candidate(b, n) + 1].size < MaxSize(Candidate(b, n))
           /\ \A m \in 1..(n - 1) :
                ~(bs[Candidate(b, m) + 1].size < MaxSize(Candidate(b, m))))
    ELSE Null

(***************************************************************************)
(* Packing in the order of the benchmarks (main, lines 722-733).           *)
(***************************************************************************)
\* The bucket index after a zummary was put in bucket b of the given size:
\* if (buckets[j].size >= bucket_size) j++.
AdvanceKeep(b, size) == IF size >= bucket_size THEN b + 1 ELSE b

KeepStep ==
  /\ pc = "keep"
  /\ i # size_benchmarks
  /\ LET zummary == benchmarks[i + 1].zummary IN
       IF /\ zummary # Null
          /\ ~zummaries[zummary + 1].scheduled
          /\ zummaries[zummary + 1].benchmark = i
          /\ ScheduleAsserts(j, zummaries[zummary + 1])
         THEN /\ schedule_zummary(j, zummary, stray)
              /\ j' = AdvanceKeep(j, buckets'[j + 1].size)
              /\ i' = i + 1
              /\ pc' = pc
         ELSE /\ pc' = "assert_failed"
              /\ UNCHANGED <<zummaries, stray, buckets, scheduled,
                             max_memory_limit_hit, i, j>>
  /\ UNCHANGED <<args, benchmarks, keep, bucket_size, fast_bucket_fraction,
                 fast_bucket_memory, size_nodes, tasks, last_bucket_size,
                 limit, last, nodes, latency>>

KeepDone ==
  /\ pc = "keep"
  /\ i = size_benchmarks
  /\ pc' = "packed"
  /\ UNCHANGED <<args, benchmarks, zummaries, stray, keep, bucket_size,
                 fast_bucket_fraction, fast_bucket_memory, size_nodes, tasks,
                 last_bucket_size, buckets, scheduled, max_memory_limit_hit,
                 i, j, limit, last, nodes, latency>>

(***************************************************************************)
(* The first phase: fast buckets (main, lines 735-749).                    *)
(***************************************************************************)
\* The zummaries the first phase does not skip.
Eligible(z) ==
  /\ z.status = 10 \/ z.status = 20
  /\ ~(z.memory > fast_bucket_memory)

\* The test that ends the first phase, made after a zummary was put in
\* bucket b of the given size: buckets[j].size >= bucket_size && ++j == limit.
\* <<the new j, whether the loop breaks>>.
AdvanceFast(b, size) ==
  IF size >= bucket_size THEN <<b + 1, b + 1 = limit>> ELSE <<b, FALSE>>

PhaseAStep ==
  /\ pc = "phase_a"
  /\ i # size_zummaries
  /\ IF ~Eligible(zummaries[i + 1])
       THEN /\ i' = i + 1
            /\ pc' = pc
            /\ UNCHANGED <<zummaries, stray, buckets, scheduled,
                           max_memory_limit_hit, j>>
       ELSE IF ~ScheduleAsserts(j, zummaries[i + 1])
         THEN /\ pc' = "assert_failed"
              /\ UNCHANGED <<zummaries, stray, buckets, scheduled,
                             max_memory_limit_hit, i, j>>
         ELSE /\ schedule_zummary(j, i, stray)
              /\ LET adv == AdvanceFast(j, buckets'[j + 1].size) IN
                   /\ j' = adv[1]
                   /\ IF adv[2]
                        THEN pc' = "phase_a_done" /\ i' = i
                        ELSE pc' = pc /\ i' = i + 1
  /\ UNCHANGED <<args, benchmarks, keep, bucket_size, fast_bucket_fraction,
                 fast_bucket_memory, size_nodes, tasks, last_bucket_size,
                 limit, last, nodes, latency>>

PhaseADone ==
  /\ pc = "phase_a"
  /\ i = size_zummaries
  /\ pc' = "phase_a_done"
  /\ UNCHANGED <<args, benchmarks, zummaries, stray, keep, bucket_size,
                 fast_bucket_fraction, fast_bucket_memory, size_nodes, tasks,
                 last_bucket_size, buckets, scheduled, max_memory_limit_hit,
                 i, j, limit, last, nodes, latency>>

(***************************************************************************)
(* The second phase: the rest by memory (main, lines 750-764).             *)
(***************************************************************************)
StartPhaseB ==
  /\ pc = "phase_a_done"
  /\ zummaries' = sort_zummaries_by_memory(zummaries)
  /\ last' = size_zummaries
  /\ j' = tasks - 1
  /\ pc' = "phase_b"
  /\ UNCHANGED <<args, benchmarks, stray, keep, bucket_size,
                 fast_bucket_fraction, fast_bucket_memory, size_nodes, tasks,
                 last_bucket_size, buckets, scheduled, max_memory_limit_hit,
                 i, limit, nodes, latency>>

\* What a read of the zummary below zummaries[0] can find when it finds it
\* not scheduled.
StrayZummaries ==
  {Zummary(0, v.status, v.real, v.memory, v.limit_memory) : v \in ZummaryValues}

\* The body of the loop after the test of zummary->scheduled, for the
\* zummary at zummaries + k.
PhaseBSchedule(k, st) ==
  IF ~ScheduleAsserts(j, ZummaryAt(st, k))
    THEN /\ pc' = "assert_failed"
         /\ stray' = st
         /\ UNCHANGED <<zummaries, buckets, scheduled, max_memory_limit_hit, j>>
    ELSE /\ schedule_zummary(j, k, st)
         /\ IF scheduled' # size_zummaries
              THEN LET res == next_bucket(buckets', j) IN
                     IF res = Null THEN pc' = "spin" /\ j' = j
                                   ELSE pc' = pc /\ j' = res
              ELSE pc' = "packed" /\ j' = j

PhaseBStep ==
  /\ pc = "phase_b"
  /\ last' = last - 1
  /\ IF last' >= 0
       THEN IF zummaries[last' + 1].scheduled
              THEN /\ pc' = pc
                   /\ UNCHANGED <<zummaries, stray, buckets, scheduled,
                                  max_memory_limit_hit, j>>
              ELSE PhaseBSchedule(last', stray)
       ELSE \* zummaries + --last is below the array: the read is undefined
            \/ /\ pc' = "fault"
               /\ UNCHANGED <<zummaries, stray, buckets, scheduled,
                              max_memory_limit_hit, j>>
            \/ /\ -last' <= MaxUnderrun
               /\ stray' = Append(stray, [scheduled |-> TRUE])
               /\ pc' = pc
               /\ UNCHANGED <<zummaries, buckets, scheduled,
                              max_memory_limit_hit, j>>
            \/ /\ -last' <= MaxUnderrun
               /\ \E z \in StrayZummaries : PhaseBSchedule(last', Append(stray, z))
  /\ UNCHANGED <<args, benchmarks, keep, bucket_size, fast_bucket_fraction,
                 fast_bucket_memory, size_nodes, tasks, last_bucket_size,
                 i, limit, nodes, latency>>

(***************************************************************************)
(* The order of the buckets and the nodes (main, lines 807-841).           *)
(***************************************************************************)
RECURSIVE SortBucketsInner(_, _, _)
SortBucketsInner(bs, a, b) ==
  IF b = Len(bs) THEN bs
  ELSE IF bs[a + 1].real <= bs[b + 1].real
    THEN SortBucketsInner(bs, a, b + 1)
    ELSE SortBucketsInner(Swap(bs, a, b), a, b + 1)

RECURSIVE SortBucketsOuter(_, _)
SortBucketsOuter(bs, a) ==
  IF a = Len(bs) THEN bs
  ELSE SortBucketsOuter(SortBucketsInner(bs, a, a + 1), a + 1)

\* A sort that leaves the buckets in the order of the packing.
sort_buckets_by_real_AsPacked(bs) == bs

sort_buckets_by_real(bs) == SortBucketsOuter(bs, 0)

\* The statistics and costs of lines 766-806 change no state of what
\* follows; the buckets are sorted and the nodes allocated.
Report ==
  /\ pc = "packed"
  /\ buckets' = sort_buckets_by_real(buckets)
  /\ nodes' = [k \in 1..size_nodes |-> Null]
  /\ latency' = 0
  /\ i' = 0
  /\ pc' = "nodes"
  /\ UNCHANGED <<args, benchmarks, zummaries, stray, keep, bucket_size,
                 fast_bucket_fraction, fast_bucket_memory, size_nodes, tasks,
                 last_bucket_size, scheduled, max_memory_limit_hit, j, limit,
                 last>>

\* A scan that replaces the last of the buckets that end first.
RECURSIVE ScanNodes_LastLeast(_, _, _)
ScanNodes_LastLeast(n, replace, pos) ==
  IF n = size_nodes THEN <<replace, pos>>
  ELSE LET prev == nodes[n + 1] IN
    IF prev = Null THEN <<Null, n>>
    ELSE IF replace = Null \/ buckets[prev + 1].end <= buckets[replace + 1].end
      THEN ScanNodes_LastLeast(n + 1, prev, n)
      ELSE ScanNodes_LastLeast(n + 1, replace, pos)

\* The scan of the nodes from node n on, with replace and pos as they are:
\* <<replace, pos>> at the end of the scan.
RECURSIVE ScanNodes(_, _, _)
ScanNodes(n, replace, pos) ==
  IF n = size_nodes THEN <<replace, pos>>
  ELSE LET prev == nodes[n + 1] IN
    IF prev = Null THEN <<Null, n>>
    ELSE IF replace = Null \/ buckets[prev + 1].end < buckets[replace + 1].end
      THEN ScanNodes(n + 1, prev, n)
      ELSE ScanNodes(n + 1, replace, pos)

\* A start at the start of the bucket that is replaced.
StartAfter_ItsStart(replace) ==
  IF replace # Null THEN buckets[replace + 1].start ELSE 0

\* start of the next bucket: replace ? replace->end : 0.
StartAfter(replace) == IF replace # Null THEN buckets[replace + 1].end ELSE 0

NodeStep ==
  /\ pc = "nodes"
  /\ i # tasks
  /\ LET found == ScanNodes(0, Null, Null)
         replace == found[1]
         pos == found[2]
         start == StartAfter(replace)
         end == start + buckets[i + 1].real
     IN IF pos = Null
          THEN /\ pc' = "assert_failed"
               /\ UNCHANGED <<buckets, nodes, latency, i>>
          ELSE /\ buckets' = [buckets EXCEPT ![i + 1].start = start,
                                             ![i + 1].end = end]
               /\ nodes' = [nodes EXCEPT ![pos + 1] = i]
               /\ latency' = IF end > latency THEN end ELSE latency
               /\ i' = i + 1
               /\ pc' = pc
  /\ UNCHANGED <<args, benchmarks, zummaries, stray, keep, bucket_size,
                 fast_bucket_fraction, fast_bucket_memory, size_nodes, tasks,
                 last_bucket_size, scheduled, max_memory_limit_hit, j, limit,
                 last>>

NodesDone ==
  /\ pc = "nodes"
  /\ i = tasks
  /\ pc' = "done"
  /\ UNCHANGED <<args, benchmarks, zummaries, stray, keep, bucket_size,
                 fast_bucket_fraction, fast_bucket_memory, size_nodes, tasks,
                 last_bucket_size, buckets, scheduled, max_memory_limit_hit,
                 i, j, limit, last, nodes, latency>>

Next ==
  \/ ParseOptions
  \/ MatchZummary
  \/ MatchZummariesDone
  \/ MatchBenchmark
  \/ MatchBenchmarksDone
  \/ Configure
  \/ KeepStep
  \/ KeepDone
  \/ PhaseAStep
  \/ PhaseADone
  \/ StartPhaseB
  \/ PhaseBStep
  \/ Report
  \/ NodeStep
  \/ NodesDone

\* Packing, of matched files.
Spec == Init /\ [][Next]_vars

\* Matching, of any two files.
SpecMatch == InitMatch /\ [][Next]_vars

\* Node scheduling, of matched files with any wall-clock times.
SpecNodes == InitNodes /\ [][Next]_vars

\* The first phase, of runs of which some are out of it.
SpecFast == InitFast /\ [][Next]_vars

\* Runs with any values of the options -b, -f and -n.
SpecOptions == InitOptions /\ [][Next]_vars

(***************************************************************************)
(* Properties.                                                             *)
(***************************************************************************)
RECURSIVE SumOfSizes(_)
SumOfSizes(bs) == IF bs = <<>> THEN 0 ELSE Head(bs).size + SumOfSizes(Tail(bs))

\* The places <<bucket, position>> at which the buckets hold zummaries + k.
PlacesOf(k) ==
  {p \in (1..Len(buckets)) \X (1..bucket_size) :
     /\ p[2] <= Len(buckets[p[1]].zummaries)
     /\ buckets[p[1]].zummaries[p[2]] = k}

Eligibles == {k \in 1..size_zummaries : Eligible(zummaries[k])}

\* C1 (exhaustiveness): when packing has finished, in either mode, every
\* zummary is scheduled, every zummary is at exactly one place of exactly
\* one bucket, and the sizes of the buckets add up to the number of
\* zummaries, as does the counter scheduled.
C1_Exhaustive ==
  pc = "packed" =>
    /\ \A k \in 1..size_zummaries : zummaries[k].scheduled
    /\ \A k \in 0..(size_zummaries - 1) : Cardinality(PlacesOf(k)) = 1
    /\ \A b \in 1..tasks : buckets[b].size = Len(buckets[b].zummaries)
    /\ SumOfSizes(buckets) = size_zummaries
    /\ scheduled = size_zummaries

\* Both phases have put zummaries in buckets, three buckets are packed.
C1_Witness ==
  /\ pc = "packed"
  /\ ~keep
  /\ tasks = 3
  /\ limit = 1
  /\ Cardinality(Eligibles) = 2

\* C2 (capacity): there are ceil(N / bucket_size) buckets, and when packing
\* has finished every bucket but the last holds bucket_size zummaries and
\* the last holds last_bucket_size, which is N mod bucket_size, or
\* bucket_size when that is 0.
C2_Capacity ==
  pc = "packed" =>
    /\ Len(buckets) = tasks
    /\ (tasks - 1) * bucket_size < size_benchmarks
    /\ size_benchmarks <= tasks * bucket_size
    /\ last_bucket_size =
         IF size_benchmarks % bucket_size = 0 THEN bucket_size
                                              ELSE size_benchmarks % bucket_size
    /\ \A b \in 0..(tasks - 2) : buckets[b + 1].size = bucket_size
    /\ buckets[tasks].size = last_bucket_size

\* Two phases have packed three zummaries in a full bucket and a last
\* bucket of one, some of them in the first phase.
C2_Witness ==
  /\ pc = "packed"
  /\ ~keep
  /\ bucket_size = 2
  /\ tasks = 2
  /\ last_bucket_size = 1
  /\ Eligibles # {}
  /\ Cardinality(Eligibles) < 3

\* The second phase is running and no zummary is left for it.
NothingLeftForPhaseB ==
  /\ pc = "phase_b"
  /\ \A k \in 1..size_zummaries : zummaries[k].scheduled

\* C3 (nothing left for the second phase): when the first phase has
\* scheduled every zummary, each step of the second phase schedules nothing
\* and leaves the buckets as they are, reads a zummary of the array only
\* (zummaries[0..N-1]), and goes on in the array or ends the packing.
C3_PhaseBNothingLeft ==
  [][NothingLeftForPhaseB =>
       /\ buckets' = buckets
       /\ scheduled' = scheduled
       /\ last' \in 0..(size_zummaries - 1)
       /\ pc' \in {"phase_b", "packed"}]_vars

\* C4 (limit of the fast buckets): at the end of the first phase only the
\* buckets below limit = floor(fast_bucket_fraction * tasks / 100) hold
\* zummaries, and at most limit * bucket_size zummaries are scheduled; with
\* limit = 0 the first phase schedules nothing.
C4_FastLaneLimit ==
  pc = "phase_a_done" =>
    /\ limit = (fast_bucket_fraction * tasks) \div 100
    /\ \A b \in 0..(tasks - 1) : b >= limit => buckets[b + 1].size = 0
    /\ scheduled <= limit * bucket_size

BenchmarkNames == {benchmarks[k].name : k \in 1..size_benchmarks}

ZummaryNames == {zummaries[k].name : k \in 1..size_zummaries}

\* No name occurs twice in the benchmarks, nor in the zummaries.
UniqueNames ==
  /\ Cardinality(BenchmarkNames) = size_benchmarks
  /\ Cardinality(ZummaryNames) = size_zummaries

\* The matching has come to its end, with or without an error.
MatchingEnded ==
  pc \notin {"options", "die_invalid_argument", "die_no_benchmark",
             "match_zummaries", "match_benchmarks"}

MatchingFailed ==
  pc \in {"die_zummary_not_in_benchmarks", "die_benchmark_not_in_zummary",
          "die_sizes_differ"}

\* C5 (bijection): for benchmarks and zummaries with unique names, the
\* matching ends in a fatal error exactly when the set of the names of the
\* benchmarks differs from the set of the names of the zummaries.
C5_Bijection ==
  (UniqueNames /\ MatchingEnded) =>
    (MatchingFailed <=> BenchmarkNames # ZummaryNames)

\* Two benchmarks and two zummaries with unique names, one name of each in
\* the other file: the sizes agree and the matching has failed.
C5_Witness ==
  /\ UniqueNames
  /\ size_benchmarks = 2
  /\ size_zummaries = 2
  /\ BenchmarkNames \cap ZummaryNames # {}
  /\ MatchingFailed

\* C6 (matched pairs): when the matching ends without an error, whatever
\* the names in the two files, every benchmark points to a zummary and
\* every zummary to a benchmark, the two pointers are inverse to each other
\* and no two benchmarks share a zummary.
C6_MatchedPairs ==
  pc = "matched" =>
    /\ \A b \in 0..(size_benchmarks - 1) :
         /\ benchmarks[b + 1].zummary \in 0..(size_zummaries - 1)
         /\ zummaries[benchmarks[b + 1].zummary + 1].benchmark = b
    /\ \A z \in 0..(size_zummaries - 1) :
         /\ zummaries[z + 1].benchmark \in 0..(size_benchmarks - 1)
         /\ benchmarks[zummaries[z + 1].benchmark + 1].zummary = z
    /\ \A a, b \in 1..size_benchmarks :
         a # b => benchmarks[a].zummary # benchmarks[b].zummary

\* The zummary a bucket's k-th pointer points to.
Member(bucket, k) == ZummaryAt(stray, bucket.zummaries[k])

RECURSIVE MemoryOfFirst(_, _)
MemoryOfFirst(bucket, n) ==
  IF n = 0 THEN 0 ELSE Member(bucket, n).memory + MemoryOfFirst(bucket, n - 1)

\* The largest wall-clock time of the members of a bucket that has one.
LongestMember(bucket) ==
  CHOOSE r \in {Member(bucket, k).real : k \in 1..Len(bucket.zummaries)} :
    \A k \in 1..Len(bucket.zummaries) : Member(bucket, k).real <= r

\* How often x is an element of the sequence seq.
Count(seq, x) == Cardinality({k \in 1..Len(seq) : seq[k] = x})

\* C7 (makespan): at every moment, so after every call of schedule_zummary
\* and at the end of packing in both modes, real of a bucket is the largest
\* wall-clock time of its members (0 for an empty bucket) and memory of a
\* bucket is the sum of the memory of its members; and sort_buckets_by_real
\* permutes the buckets, each keeping its real, memory and members.
C7_Makespan ==
  /\ [](\A b \in 1..Len(buckets) :
          /\ buckets[b].size = Len(buckets[b].zummaries)
          /\ buckets[b].memory = MemoryOfFirst(buckets[b], buckets[b].size)
          /\ buckets[b].real =
               IF buckets[b].size = 0 THEN 0 ELSE LongestMember(buckets[b]))
  /\ [][pc = "packed" =>
          /\ Len(buckets') = Len(buckets)
          /\ \A b \in 1..Len(buckets) :
               Count(buckets', buckets[b]) = Count(buckets, buckets[b])]_vars

\* The buckets were sorted, and one of them holds two zummaries the first
\* of which took longer than the second.
C7_Witness ==
  /\ pc = "nodes"
  /\ \E b \in 1..Len(buckets) :
       /\ buckets[b].size = 2
       /\ Member(buckets[b], 1).real > Member(buckets[b], 2).real
       /\ buckets[b].memory = 3
  /\ \E b \in 1..Len(buckets) : buckets[b].real < buckets[Len(buckets)].real

\* The benchmarks the keep loop has put in a bucket.
KeepPlaced == IF pc = "keep" THEN i ELSE size_benchmarks

\* C10 (keep order): with the keep flag the zummaries are never reordered,
\* and the zummary of the benchmark at position k of the benchmarks file is
\* member k mod bucket_size of bucket k div bucket_size, for every benchmark
\* placed so far and, when the packing has finished, for all: the members of
\* the buckets, bucket after bucket, are the benchmarks in their order.
C10_KeepOrder ==
  /\ []((keep /\ pc \in {"keep", "packed"}) =>
          /\ SumOfSizes(buckets) = KeepPlaced
          /\ \A k \in 0..(KeepPlaced - 1) :
               LET bucket == buckets[(k \div bucket_size) + 1]
                   m == (k % bucket_size) + 1
               IN /\ m <= Len(bucket.zummaries)
                  /\ bucket.zummaries[m] = benchmarks[k + 1].zummary
                  /\ Member(bucket, m).name = benchmarks[k + 1].name)
  /\ [][args.keep =>
          /\ benchmarks' = benchmarks \/ pc = "match_benchmarks"
          /\ [k \in 1..size_zummaries |-> zummaries'[k].name] =
               [k \in 1..size_zummaries |-> zummaries[k].name]]_vars

\* Three benchmarks in another order than the zummaries, with wall-clock
\* times and memory that are not in order either, are packed in buckets
\* of two.
C10_Witness ==
  /\ keep
  /\ pc = "packed"
  /\ size_benchmarks = 3
  /\ bucket_size = 2
  /\ benchmarks[1].zummary = 2
  /\ benchmarks[2].zummary = 0
  /\ Member(buckets[1], 1).real > Member(buckets[1], 2).real
  /\ Member(buckets[1], 2).memory > Member(buckets[2], 1).memory

\* The buckets that were given a node.
Assigned == IF pc = "nodes" THEN i ELSE IF pc = "done" THEN tasks ELSE 0

\* The latest end of the buckets that were given a node, 0 without any.
LatestEnd ==
  IF Assigned = 0 THEN 0
  ELSE CHOOSE e \in {buckets[b].end : b \in 1..Assigned} :
         \A b \in 1..Assigned : buckets[b].end <= e

\* A bucket is about to be given a node.
NodeStepAhead == pc = "nodes" /\ i # tasks

\* end_time of node n: the end of the bucket it holds, 0 when it holds none.
EndTime(n) == IF nodes[n + 1] = Null THEN 0 ELSE buckets[nodes[n + 1] + 1].end

\* C8 (node schedule): every bucket that was given a node has end = start +
\* real, and latency is the latest end of them (of all buckets, at the
\* end); a bucket given to a node starts exactly at the end of the bucket
\* last given to that node, or at 0 on a node without one, and not before
\* that bucket started; the buckets given a node before keep their times.
C8_NodeSchedule ==
  /\ [](pc \in {"nodes", "done"} =>
          /\ \A b \in 1..Assigned :
               buckets[b].end = buckets[b].start + buckets[b].real
          /\ latency = LatestEnd)
  /\ [][NodeStepAhead =>
          /\ \E n \in 0..(size_nodes - 1) :
               /\ nodes' = [nodes EXCEPT ![n + 1] = i]
               /\ buckets'[i + 1].start = EndTime(n)
               /\ nodes[n + 1] # Null =>
                    buckets[nodes[n + 1] + 1].start <= buckets'[i + 1].start
          /\ \A b \in 1..i : buckets'[b] = buckets[b]]_vars

\* Three buckets were scheduled on two nodes, one of them after another
\* bucket that took time.
C8_Witness ==
  /\ pc = "done"
  /\ size_nodes = 2
  /\ tasks = 3
  /\ \E b \in 1..tasks : buckets[b].start > 0 /\ buckets[b].real > 0
  /\ latency > buckets[1].end

\* The lowest of the nodes with the smallest end_time.
LeastLoaded ==
  CHOOSE n \in 0..(size_nodes - 1) :
    \A m \in 0..(size_nodes - 1) :
      EndTime(n) < EndTime(m) \/ (EndTime(n) = EndTime(m) /\ n <= m)

\* The buckets are in ascending order of real.
AscendingReal ==
  \A a, b \in 1..Len(buckets) : a < b => buckets[a].real <= buckets[b].real

\* C9 as claimed (greedy node selection): the buckets are taken in
\* ascending order of real, and each is put on the node with the smallest
\* end_time, a node without a bucket counting as 0 and the lowest index
\* winning a tie, also the tie of a node that holds a bucket ending at 0
\* with a higher node that holds none; the bucket starts at that end_time.
C9_LowestLeastLoaded ==
  /\ [](pc \in {"nodes", "done"} => AscendingReal)
  /\ [][NodeStepAhead =>
          /\ nodes' = [nodes EXCEPT ![LeastLoaded + 1] = i]
          /\ buckets'[i + 1].start = EndTime(LeastLoaded)]_vars

\* The nodes that hold no bucket.
FreeNodes == {n \in 0..(size_nodes - 1) : nodes[n + 1] = Null}

\* The lowest node without a bucket if there is one, and else the lowest
\* of the nodes with the smallest end_time.
FirstFreeOrLeastLoaded ==
  IF FreeNodes # {}
    THEN CHOOSE n \in FreeNodes : \A m \in FreeNodes : n <= m
    ELSE LeastLoaded

\* C9 as amended: the buckets are taken in ascending order of real, and
\* each is put on the lowest node without a bucket if there is one, and
\* else on the node whose bucket ends first, the lowest index winning a
\* tie; the bucket starts at the end_time of that node, which is the
\* smallest end_time of all nodes.
C9_FirstFreeOrLeastLoaded ==
  /\ [](pc \in {"nodes", "done"} => AscendingReal)
  /\ [][NodeStepAhead =>
          /\ nodes' = [nodes EXCEPT ![FirstFreeOrLeastLoaded + 1] = i]
          /\ buckets'[i + 1].start = EndTime(FirstFreeOrLeastLoaded)
          /\ buckets'[i + 1].start = EndTime(LeastLoaded)]_vars

\* Node 0 holds a bucket that ends at 0 and the next bucket was put on
\* node 1, which held none.
C9_Witness ==
  /\ pc \in {"nodes", "done"}
  /\ size_nodes = 2
  /\ tasks = 3
  /\ nodes[1] = 0
  /\ buckets[1].end = 0
  /\ nodes[2] = 1
  /\ buckets[2].real > 0

\* The options ask for a bucket size or a number of nodes that is not
\* positive, or for a fraction of fast buckets outside 0..100.
BadConfiguration ==
  \/ args.b # {} /\ Given(args.b) <= 0
  \/ args.n # {} /\ Given(args.n) <= 0
  \/ args.f # {} /\ Given(args.f) \notin 0..100

\* C11 (configuration errors are fatal): a run with a bucket size or a
\* number of nodes that is not positive, or with a fraction of fast buckets
\* outside 0..100, ends in the fatal error of the option parsing: it gets
\* no further, nothing is packed, no bucket is given a node and no default
\* replaces the value.
C11_ConfigurationErrors ==
  BadConfiguration =>
    /\ pc \in {"options", "die_invalid_argument"}
    /\ scheduled = 0
    /\ buckets = <<>>
    /\ nodes = <<>>
    /\ size_nodes = 0
    /\ fast_bucket_fraction = 0

\* The zummaries of the buckets one bucket after the other.
RECURSIVE MembersInOrder(_)
MembersInOrder(bs) ==
  IF bs = <<>> THEN <<>> ELSE Head(bs).zummaries \o MembersInOrder(Tail(bs))

\* zi comes before zj by wall-clock time, and by memory for equal times.
ByTimeThenMemory(zi, zj) ==
  zi.real < zj.real \/ (zi.real = zj.real /\ zi.memory <= zj.memory)

\* C12 (first phase): during and after the first phase of the two-phase
\* mode the zummaries in the buckets are exactly the scheduled ones, each
\* has status 10 or 20 and a memory of at most fast_bucket_memory, they
\* are in the buckets in ascending order of wall-clock time and then
\* memory, every member of a bucket has a wall-clock time of at most that
\* of every member of a later bucket, and no zummary that could have been
\* scheduled and was not has a smaller wall-clock time than a scheduled
\* one.
C12_FastPhase ==
  pc \in {"phase_a", "phase_a_done"} =>
    LET placed == MembersInOrder(buckets) IN
      /\ \A k \in 0..(size_zummaries - 1) :
           zummaries[k + 1].scheduled <=> Count(placed, k) = 1
      /\ \A m \in 1..Len(placed) :
           /\ placed[m] \in 0..(size_zummaries - 1)
           /\ zummaries[placed[m] + 1].status \in {10, 20}
           /\ zummaries[placed[m] + 1].memory <= fast_bucket_memory
      /\ \A m, n \in 1..Len(placed) :
           m < n => ByTimeThenMemory(zummaries[placed[m] + 1],
                                     zummaries[placed[n] + 1])
      /\ \A a, b \in 1..Len(buckets) :
           a < b =>
             \A m \in 1..Len(buckets[a].zummaries),
                n \in 1..Len(buckets[b].zummaries) :
               Member(buckets[a], m).real <= Member(buckets[b], n).real
      /\ \A k \in 1..size_zummaries :
           (~zummaries[k].scheduled /\ Eligible(zummaries[k])) =>
             \A m \in 1..Len(placed) :
               zummaries[placed[m] + 1].real <= zummaries[k].real

\* The first phase has ended at its limit of two buckets, filled with
\* zummaries of the same wall-clock time and different memory, and has
\* left a zummary that it could have scheduled and one that it could not.
C12_Witness ==
  /\ pc = "phase_a_done"
  /\ limit = 2
  /\ scheduled = 2
  /\ Member(buckets[1], 1).real = Member(buckets[2], 1).real
  /\ Member(buckets[1], 1).memory < Member(buckets[2], 1).memory
  /\ \E k \in 1..size_zummaries :
       ~zummaries[k].scheduled /\ Eligible(zummaries[k])

\* zi comes before zj by memory, and by wall-clock time for equal memory.
ByMemoryThenTime(zi, zj) ==
  zi.memory < zj.memory \/ (zi.memory = zj.memory /\ zi.real <= zj.real)

\* The capacity of the bucket at index b.
Capacity(b) == IF b = tasks - 1 THEN last_bucket_size ELSE bucket_size

\* seq is the beginning of the sequence longer.
IsPrefix(seq, longer) ==
  /\ Len(seq) <= Len(longer)
  /\ \A k \in 1..Len(seq) : longer[k] = seq[k]

\* The second phase is about to put a zummary of the array in a bucket.
PhaseBAssigns == pc = "phase_b" /\ last > 0 /\ ~zummaries[last].scheduled

\* C13 (second phase): the second phase starts at bucket tasks-1; each
\* zummary it puts in a bucket is, of the zummaries not yet scheduled, one
\* of the largest memory and among these of the largest wall-clock time,
\* so that they are assigned in non-increasing order of memory and then
\* time; it goes to the end of the current bucket, and the next current
\* bucket is the first one after it, cyclically, that is below its
\* capacity; between two assignments the current bucket stays; and from
\* the end of the first phase on no scheduled zummary changes or leaves
\* its place in its bucket.
C13_MemoryPhase ==
  /\ [][pc = "phase_a_done" => j' = tasks - 1 /\ last' = size_zummaries]_vars
  /\ [][(pc = "phase_a_done" \/ pc = "phase_b") =>
          /\ \A b \in 1..tasks :
               IsPrefix(buckets[b].zummaries, buckets'[b].zummaries)
          /\ \A k \in 1..size_zummaries :
               (zummaries[k].scheduled => zummaries'[k] = zummaries[k])]_vars
  /\ [][(pc = "phase_b" /\ ~PhaseBAssigns /\ last > 0) =>
          j' = j /\ buckets' = buckets /\ scheduled' = scheduled]_vars
  /\ [][PhaseBAssigns =>
          /\ \A u \in 1..size_zummaries :
               ~zummaries[u].scheduled =>
                 ByMemoryThenTime(zummaries[u], zummaries[last])
          /\ \A b \in 1..tasks : Count(buckets[b].zummaries, last - 1) = 0
          /\ buckets[j + 1].size < Capacity(j)
          /\ buckets'[j + 1].zummaries =
               Append(buckets[j + 1].zummaries, last - 1)
          /\ \A b \in 1..tasks : b # j + 1 => buckets'[b] = buckets[b]
          /\ zummaries'[last].scheduled
          /\ scheduled' = scheduled + 1
          /\ pc' \in {"phase_b", "packed"}
          /\ pc' = "packed" <=> scheduled' = size_zummaries
          /\ pc' = "phase_b" =>
               \E n \in 1..tasks :
                 /\ j' = (j + n) % tasks
                 /\ buckets'[j' + 1].size < Capacity(j')
                 /\ \A m \in 1..(n - 1) :
                      buckets'[((j + m) % tasks) + 1].size
                        >= Capacity((j + m) % tasks)]_vars

\* The first phase has filled bucket 0, the second phase has put the
\* larger of two zummaries in bucket 2 and then, passing the full bucket
\* 0, the smaller one in bucket 1.
C13_Witness ==
  /\ pc = "packed"
  /\ ~keep
  /\ tasks = 3
  /\ limit = 1
  /\ buckets[1].size = 1 /\ buckets[2].size = 1 /\ buckets[3].size = 1
  /\ Eligible(Member(buckets[1], 1))
  /\ buckets[1].zummaries[1] = 0
  /\ Member(buckets[3], 1).memory > Member(buckets[2], 1).memory

\* C14 (capacity at every step): in every state of a run, in the order of
\* the benchmarks and in both phases, every bucket holds at most its
\* capacity (last_bucket_size for bucket tasks-1, bucket_size for the
\* others), no assertion of schedule_zummary has failed (it was not called
\* for a full bucket or a scheduled zummary), and next_bucket has found a
\* bucket below its capacity whenever it was called.
C14_CapacityAtEveryStep ==
  /\ pc # "assert_failed"
  /\ pc # "spin"
  /\ \A b \in 1..Len(buckets) :
       /\ buckets[b].size <= Capacity(b - 1)
       /\ Len(buckets[b].zummaries) <= Capacity(b - 1)

\* C15 (latency is the end of the last bucket): during and after the node
\* scheduling the buckets that were given a node have, in the order in
\* which they were given one, start times and end times that do not
\* decrease, so that no bucket ends later than the one given a node last,
\* and latency is the end of that one; at the end this is the last bucket
\* of the array, which has the largest real.
C15_LatencyOfLast ==
  pc \in {"nodes", "done"} =>
    /\ \A a, b \in 1..Assigned :
         a < b => /\ buckets[a].start <= buckets[b].start
                  /\ buckets[a].end <= buckets[b].end
    /\ Assigned > 0 => latency = buckets[Assigned].end
    /\ pc = "done" =>
         /\ Assigned = tasks
         /\ \A b \in 1..tasks : buckets[b].real <= buckets[tasks].real

\* Three buckets that take time were scheduled on two nodes, the last and
\* longest one after another bucket on its node and ending after the other
\* two.
C15_Witness ==
  /\ pc = "done"
  /\ size_nodes = 2
  /\ tasks = 3
  /\ buckets[1].real > 0
  /\ buckets[2].real < buckets[3].real
  /\ buckets[3].start > 0
  /\ buckets[2].end < buckets[3].end
  /\ latency = buckets[3].end
====
